---- MODULE Spec2Model ----
(***************************************************************************)
(* A model of yaml_parser.py: the fallback parser parse_simple_yaml, the   *)
(* path resolver navigate_path, the formatter format_output and the CLI    *)
(* entry point main.  Python strings are sequences of one-character        *)
(* strings; Python values are records [t |-> tag, v |-> payload].          *)
(***************************************************************************)
EXTENDS Integers, Sequences, FiniteSets, TLC

\* parse_simple_yaml: its locals, the line just read, the lines still to read, and
\* the documented reading of the lines read so far (open_section, open_list, plain)
VARIABLES result, heap, current_section, current_list, line, consumed, pending, ppc, perr,
          open_section, open_list, plain, doc, tab
\* navigate_path: its arguments and locals
VARIABLES data, path, parts, current, npc, nret, nerr
\* format_output: its argument and locals
VARIABLES value, output, remaining, fpc, fret, ferr
\* main: the process and its environment
VARIABLES argv, HAS_YAML, disk, f_open, opens, content, mdata, mresult, text, stdout, stderr,
          exit_code, pc, exc, failed_at

parseVars == <<result, heap, current_section, current_list, line, consumed, pending, ppc, perr,
              open_section, open_list, plain, doc, tab>>
navVars == <<data, path, parts, current, npc, nret, nerr>>
fmtVars == <<value, output, remaining, fpc, fret, ferr>>
mainVars == <<argv, HAS_YAML, disk, f_open, opens, content, mdata, mresult, text, stdout, stderr,
             exit_code, pc, exc, failed_at>>
vars == <<parseVars, navVars, fmtVars, mainVars>>

\* ------------------------------------------------------------------ bounds
MaxLineLen == 3
MaxLines == 3
MaxEntries == 2
MaxItems == 2
MaxPathLen == 5
MaxListLen == 2

\* ------------------------------------------------------- Python strings
RECURSIVE SeqsUpTo(_, _)
SeqsUpTo(S, n) ==
  IF n = 0 THEN {<<>>}
  ELSE LET shorter == SeqsUpTo(S, n - 1)
       IN shorter \cup {Append(s, c) : s \in shorter, c \in S}

Drop(s, n) == SubSeq(s, n + 1, Len(s))

IsSpace(c) == c = " "

RECURSIVE LStrip(_)
LStrip(s) == IF s # <<>> /\ IsSpace(Head(s)) THEN LStrip(Tail(s)) ELSE s

RECURSIVE RStrip(_)
RStrip(s) ==
  IF s # <<>> /\ IsSpace(s[Len(s)]) THEN RStrip(SubSeq(s, 1, Len(s) - 1)) ELSE s

Strip(s) == LStrip(RStrip(s))

StartsWith(s, p) == Len(s) >= Len(p) /\ SubSeq(s, 1, Len(p)) = p

Contains(s, c) == \E i \in 1..Len(s) : s[i] = c

\* str.index(c) as a 0-based offset; only used where Contains(s, c)
Index(s, c) == (CHOOSE i \in 1..Len(s) : s[i] = c /\ \A j \in 1..(i - 1) : s[j] # c) - 1

\* Python slice s[i:j] with 0 <= i, 0 <= j
Slice(s, i, j) == IF i >= j THEN <<>> ELSE SubSeq(s, i + 1, IF j > Len(s) THEN Len(s) ELSE j)

\* s.split(c, 1) for a string that contains c
SplitFirst(s, c) == <<Slice(s, 0, Index(s, c)), Drop(s, Index(s, c) + 1)>>

RECURSIVE Split(_, _)
Split(s, c) ==
  IF Contains(s, c)
  THEN <<Slice(s, 0, Index(s, c))>> \o Split(Drop(s, Index(s, c) + 1), c)
  ELSE <<s>>

RECURSIVE Join(_, _)
Join(ss, sep) ==
  IF ss = <<>> THEN <<>>
  ELSE IF Len(ss) = 1 THEN ss[1]
  ELSE ss[1] \o sep \o Join(Tail(ss), sep)

\* ---------------------------------------------------------- Python values
NoneV == [t |-> "none", v |-> <<>>]
Str(s) == [t |-> "str", v |-> s]
List(elems) == [t |-> "list", v |-> elems]
Dict(pairs) == [t |-> "dict", v |-> pairs]
Ref(id) == [t |-> "ref", v |-> <<id>>]

\* a dict is its (key, value) pairs in insertion order, keys unique
HasKey(pairs, k) == \E i \in 1..Len(pairs) : pairs[i][1] = k
KeyPos(pairs, k) == CHOOSE i \in 1..Len(pairs) : pairs[i][1] = k
Lookup(pairs, k) == pairs[KeyPos(pairs, k)][2]
DictSet(pairs, k, val) ==
  IF HasKey(pairs, k)
  THEN [pairs EXCEPT ![KeyPos(pairs, k)] = <<k, val>>]
  ELSE Append(pairs, <<k, val>>)

\* Python truthiness of current_section (None or a str)
Truthy(x) == x.t = "str" /\ x.v # <<>>

\* ------------------------------------------- components that are not running
NavIdle ==
  /\ data = NoneV
  /\ path = <<>>
  /\ parts = <<>>
  /\ current = NoneV
  /\ npc = "idle"
  /\ nret = NoneV
  /\ nerr = "none"

FmtIdle ==
  /\ value = NoneV
  /\ output = <<>>
  /\ remaining = <<>>
  /\ fpc = "idle"
  /\ fret = <<>>
  /\ ferr = "none"

MainIdle ==
  /\ argv = <<>>
  /\ HAS_YAML = FALSE
  /\ disk = <<>>
  /\ f_open = FALSE
  /\ opens = 0
  /\ content = <<>>
  /\ mdata = NoneV
  /\ mresult = NoneV
  /\ text = <<>>
  /\ stdout = <<>>
  /\ stderr = <<>>
  /\ exit_code = -1
  /\ pc = "idle"
  /\ exc = "none"
  /\ failed_at = "none"

\* ------------------------------------------------------ parse_simple_yaml
Alphabet == {" ", "#", "-", ":", "a"}
Lines == SeqsUpTo(Alphabet, MaxLineLen)

ParserStart ==
  [result |-> <<>>, heap |-> <<>>, current_section |-> NoneV,
   current_list |-> NoneV, err |-> "none"]

\* lines 46-52: a key line at indentation zero
TopLevelKey(st, key, val) ==
  [st EXCEPT !.current_section = Str(key),
             !.result = DictSet(@, key, IF val = <<>> THEN Dict(<<>>) ELSE Str(val)),
             !.current_list = NoneV]

\* lines 53-56: an indented key line with an empty value under current_section
StartList(st, key) ==
  LET id == Len(st.heap) + 1
      made == [st EXCEPT !.heap = Append(@, <<>>), !.current_list = Ref(id)]
      sec == st.current_section.v
  IN IF ~HasKey(st.result, sec) THEN [made EXCEPT !.err = "KeyError"]
     ELSE IF Lookup(st.result, sec).t # "dict" THEN [made EXCEPT !.err = "TypeError"]
     ELSE [made EXCEPT !.result[KeyPos(st.result, sec)][2].v = DictSet(@, key, Ref(id))]

ListItemPrepends(st, item) ==
  IF st.current_list # NoneV
  THEN [st EXCEPT !.heap[st.current_list.v[1]] = <<item>> \o @]
  ELSE st

\* lines 34-38: a list item
ListItem(st, item) ==
  IF st.current_list # NoneV
  THEN [st EXCEPT !.heap[st.current_list.v[1]] = Append(@, item)]
  ELSE st

\* lines 40-56
KeyValue(st, indent, stripped) ==
  LET kv == SplitFirst(stripped, ":")
      key == Strip(kv[1])
      val == Strip(kv[2])
  IN IF indent = 0 THEN TopLevelKey(st, key, val)
     ELSE IF Truthy(st.current_section) /\ val = <<>> THEN StartList(st, key)
     ELSE st

\* lines 23-25: the comment and blank-line test, on the right-stripped line
Skipped(l) == l = <<>> \/ StartsWith(l, <<"#">>)

\* lines 23-56: one iteration of the loop
ParseLine(st, raw) ==
  LET l == RStrip(raw)
  IN IF Skipped(l) THEN st
     ELSE LET indent == Len(l) - Len(LStrip(l))
              stripped == Strip(l)
          IN IF stripped = <<>> THEN st
             ELSE IF StartsWith(stripped, <<"-", " ">>) THEN ListItem(st, Drop(stripped, 2))
             ELSE IF Contains(stripped, ":") THEN KeyValue(st, indent, stripped)
             ELSE st

\* the value the caller sees: references replaced by the lists they name
DerefDict(pairs, h) ==
  [i \in 1..Len(pairs) |->
     <<pairs[i][1],
       List([j \in 1..Len(h[pairs[i][2].v[1]]) |-> Str(h[pairs[i][2].v[1]][j])])>>]

Root(res, h) ==
  Dict([i \in 1..Len(res) |->
     <<res[i][1],
       IF res[i][2].t = "dict" THEN Dict(DerefDict(res[i][2].v, h)) ELSE res[i][2]>>])

ParserState ==
  [result |-> result, heap |-> heap, current_section |-> current_section,
   current_list |-> current_list, err |-> perr]

\* The documented reading of a line (spec 4.2), kept beside the parser's own state
\* so that properties can speak of comments, key lines, sections and lists.
Indentation(raw) == Len(raw) - Len(LStrip(raw))
Content(raw) == Strip(raw)
IsComment(raw) == Content(raw) # <<>> /\ Head(Content(raw)) = "#"
IsItemLine(raw) == StartsWith(Content(raw), <<"-", " ">>)
IsKeyLine(raw) == ~IsComment(raw) /\ ~IsItemLine(raw) /\ Contains(Content(raw), ":")
KeyOf(raw) == Strip(SplitFirst(Content(raw), ":")[1])
ValueOf(raw) == Strip(SplitFirst(Content(raw), ":")[2])
NoList == <<>>

\* the section the documented algorithm has active after reading raw
OpenSectionAfter(raw) ==
  IF IsKeyLine(raw) /\ Indentation(raw) = 0
  THEN IF ValueOf(raw) = <<>> THEN Str(KeyOf(raw)) ELSE NoneV
  ELSE open_section

\* the (section, key) of the list the documented algorithm has active after raw
OpenListAfter(raw) ==
  IF IsKeyLine(raw) /\ Indentation(raw) = 0 THEN NoList
  ELSE IF IsKeyLine(raw) /\ open_section # NoneV /\ ValueOf(raw) = <<>>
       THEN <<open_section.v, KeyOf(raw)>>
       ELSE open_list

\* whether every key line read so far, raw included, names a key
PlainAfter(raw) == plain /\ ~(IsKeyLine(raw) /\ KeyOf(raw) = <<>>)

Parsed(st, raw) ==
  /\ result' = st.result
  /\ heap' = st.heap
  /\ current_section' = st.current_section
  /\ current_list' = st.current_list
  /\ perr' = st.err
  /\ line' = raw
  /\ consumed' = consumed + 1
  /\ ppc' = IF st.err = "none" THEN "loop" ELSE "raised"
  /\ open_section' = OpenSectionAfter(raw)
  /\ open_list' = OpenListAfter(raw)
  /\ plain' = PlainAfter(raw)

ParserFresh ==
  /\ result = <<>>
  /\ heap = <<>>
  /\ current_section = NoneV
  /\ current_list = NoneV
  /\ perr = "none"
  /\ line = <<>>
  /\ consumed = 0
  /\ ppc = "loop"
  /\ open_section = NoneV
  /\ open_list = NoList
  /\ plain = TRUE

\* parse_simple_yaml not called, or called on a content still to be chosen
ParseIdle ==
  /\ ParserFresh
  /\ pending = <<>>
  /\ doc = <<>>
  /\ tab = 0

\* the loop body on the next line of an arbitrary content
ParseAny ==
  /\ ppc = "loop"
  /\ consumed < MaxLines
  /\ \E raw \in Lines : Parsed(ParseLine(ParserState, raw), raw)
  /\ UNCHANGED <<pending, doc, tab>>
  /\ UNCHANGED <<navVars, fmtVars, mainVars>>

\* the loop body on the next line of a given content
ParseFeed ==
  /\ ppc = "loop"
  /\ pending # <<>>
  /\ Parsed(ParseLine(ParserState, Head(pending)), Head(pending))
  /\ pending' = Tail(pending)
  /\ UNCHANGED <<doc, tab>>
  /\ UNCHANGED <<navVars, fmtVars, mainVars>>

\* line 58
ParseReturn ==
  /\ ppc = "loop"
  /\ pending = <<>>
  /\ ppc' = "returned"
  /\ UNCHANGED <<result, heap, current_section, current_list, line, consumed, pending, perr,
                 open_section, open_list, plain, doc, tab>>
  /\ UNCHANGED <<navVars, fmtVars, mainVars>>

ParseNext == ParseAny \/ ParseReturn

\* parse_simple_yaml called on an arbitrary content, read line by line
ParseInit == ParseIdle /\ NavIdle /\ FmtIdle /\ MainIdle

SpecParse == ParseInit /\ [][ParseNext]_vars

\* ---- documents of the two-level subset: top-level scalars, and sections each
\* holding one nested list of scalar items
TopKeys == {<<"a">>, <<"b">>, <<"c", "d">>}
ScalarValues == {<<"x">>, <<"x", ":", " ", "#", "y">>}
ListKeys == {<<"k", "-">>}
ItemTexts == {<<"x">>, <<"y", ":", " ", "z">>}

Scalar(k, val) == [kind |-> "scalar", key |-> k, value |-> val, list_key |-> <<>>, items |-> <<>>]
Section(k, lk, its) == [kind |-> "section", key |-> k, value |-> <<>>, list_key |-> lk, items |-> its]

Entries ==
  {Scalar(k, val) : k \in TopKeys, val \in ScalarValues}
    \cup {Section(k, lk, its) : k \in TopKeys, lk \in ListKeys, its \in SeqsUpTo(ItemTexts, MaxItems)}

\* documents of at most n entries, no top-level key twice
RECURSIVE DocsUpTo(_)
DocsUpTo(n) ==
  IF n = 0 THEN {<<>>}
  ELSE LET shorter == DocsUpTo(n - 1)
       IN shorter \cup
          {Append(d, e) : <<d, e>> \in
             {p \in shorter \X Entries : \A i \in 1..Len(p[1]) : p[1][i].key # p[2].key}}

Docs == DocsUpTo(MaxEntries)

\* spaces per indentation level in the document's text
IndentUnits == {1, 2}

Spaces(n) == [i \in 1..n |-> " "]

RenderEntry(e, unit) ==
  IF e.kind = "scalar" THEN <<e.key \o <<":", " ">> \o e.value>>
  ELSE <<e.key \o <<":">>, Spaces(unit) \o e.list_key \o <<":">>>>
         \o [j \in 1..Len(e.items) |-> Spaces(2 * unit) \o <<"-", " ">> \o e.items[j]]

RECURSIVE Render(_, _)
Render(d, unit) ==
  IF d = <<>> THEN <<>> ELSE RenderEntry(Head(d), unit) \o Render(Tail(d), unit)

\* the tree the document denotes
Expected(d) ==
  Dict([i \in 1..Len(d) |->
     <<d[i].key,
       IF d[i].kind = "scalar" THEN Str(d[i].value)
       ELSE Dict(<< <<d[i].list_key,
                     List([j \in 1..Len(d[i].items) |-> Str(d[i].items[j])])>> >>)>>])

\* parse_simple_yaml called on the text of a document of the subset
RoundTripInit ==
  /\ NavIdle /\ FmtIdle /\ MainIdle
  /\ ParserFresh
  /\ doc \in Docs
  /\ tab \in IndentUnits
  /\ pending = Render(doc, tab)

RoundTripNext == ParseFeed \/ ParseReturn

SpecRoundTrip == RoundTripInit /\ [][RoundTripNext]_vars

\* C4: for a document of the two-level subset (top-level keys unique), the parser
\* returns, without raising, a root mapping with exactly the document's top-level
\* keys in order, each scalar's value string, and each section's items in order.
RoundTripExact ==
  /\ ppc # "raised"
  /\ ppc = "returned" => Root(result, heap) = Expected(doc)

RoundTripReached ==
  /\ ppc = "returned"
  /\ Len(doc) = 2
  /\ doc[1].kind = "section" /\ Len(doc[1].items) = 2 /\ doc[1].items[1] # doc[1].items[2]
  /\ doc[2].kind = "scalar"
  /\ Root(result, heap) = Expected(doc)

\* a step of the loop: one more line has been read, and it is line'
Reads == consumed' = consumed + 1

\* a root mapping with item appended to the list at (sec, key)
RootAppend(root, sec, key, item) ==
  IF HasKey(root.v, sec) /\ Lookup(root.v, sec).t = "dict"
       /\ HasKey(Lookup(root.v, sec).v, key)
  THEN [root EXCEPT !.v[KeyPos(root.v, sec)][2].v[KeyPos(Lookup(root.v, sec).v, key)][2].v =
                      Append(@, Str(item))]
  ELSE [t |-> "invalid", v |-> <<>>]

\* C8: (every key line so far naming a key) an indented key line that arrives while no section is active (a section is
\* opened only by a zero-indent key line with an empty value) is ignored: the root
\* mapping is unchanged and the parser does not raise.
IndentedKeyIgnoredWithoutSection ==
  [][(Reads /\ plain' /\ IsKeyLine(line') /\ Indentation(line') > 0 /\ open_section = NoneV)
       => (Root(result', heap') = Root(result, heap) /\ perr' = "none")]_vars

\* C9: a line whose first non-space character is '#' is skipped whatever its
\* indentation: reading it leaves the parser, and so the root mapping, unchanged.
CommentLineSkipped ==
  [][(Reads /\ IsComment(line'))
       => (Root(result', heap') = Root(result, heap) /\ perr' = "none"
           /\ current_section' = current_section /\ current_list' = current_list)]_vars

\* C10: (every key line so far naming a key) a list-item line is appended to the end of the list opened by the most
\* recent indented empty-value key line under the active section and to no other;
\* with no such list open it leaves the root mapping unchanged.
ItemGoesToOpenListOnly ==
  [][(Reads /\ plain' /\ IsItemLine(line'))
       => /\ perr' = "none"
          /\ Root(result', heap') =
               IF open_list = NoList THEN Root(result, heap)
               ELSE RootAppend(Root(result, heap), open_list[1], open_list[2],
                               Drop(Content(line'), 2))]_vars

\* ---------------------------------------------------------- navigate_path
DigitChars == {"0", "1", "2", "3", "4", "5", "6", "7", "8", "9"}
DigitVal(c) ==
  CASE c = "0" -> 0 [] c = "1" -> 1 [] c = "2" -> 2 [] c = "3" -> 3 [] c = "4" -> 4
    [] c = "5" -> 5 [] c = "6" -> 6 [] c = "7" -> 7 [] c = "8" -> 8 [] c = "9" -> 9

IsDigits(s) == s # <<>> /\ \A i \in 1..Len(s) : s[i] \in DigitChars

RECURSIVE Decimal(_)
Decimal(s) == IF s = <<>> THEN 0 ELSE 10 * Decimal(SubSeq(s, 1, Len(s) - 1)) + DigitVal(s[Len(s)])

\* int(s): surrounding whitespace, one optional sign, decimal digits
Unsigned(s) == IF s # <<>> /\ Head(s) \in {"-", "+"} THEN Tail(s) ELSE s
IntOk(s) == IsDigits(Unsigned(Strip(s)))
IntVal(s) ==
  IF Head(Strip(s)) = "-" THEN 0 - Decimal(Unsigned(Strip(s))) ELSE Decimal(Unsigned(Strip(s)))

Continue(cur) == [st |-> "next", current |-> cur, err |-> "none"]
ReturnNone(cur) == [st |-> "return", current |-> cur, err |-> "none"]
Raise(cur, e) == [st |-> "raise", current |-> cur, err |-> e]

\* lines 77-80 and 87-90: a mapping lookup
KeyLookup(cur, key) ==
  IF cur.t = "dict" /\ HasKey(cur.v, key) THEN Continue(Lookup(cur.v, key)) ELSE ReturnNone(cur)

\* lines 82-85: the array access, with Python's indexing of a list
ArrayAccess(cur, index) ==
  IF cur.t = "list" /\ index < Len(cur.v)
  THEN IF index >= 0 THEN Continue(cur.v[index + 1])
       ELSE IF index + Len(cur.v) >= 0 THEN Continue(cur.v[index + Len(cur.v) + 1])
       ELSE Raise(cur, "IndexError")
  ELSE ReturnNone(cur)

\* lines 73-85: a part holding both brackets
Bracketed(cur, part) ==
  LET key == Slice(part, 0, Index(part, "["))
      digits == Slice(part, Index(part, "[") + 1, Index(part, "]"))
  IN IF ~IntOk(digits) THEN Raise(cur, "ValueError")
     ELSE IF key # <<>>
          THEN LET found == KeyLookup(cur, key)
               IN IF found.st = "next" THEN ArrayAccess(found.current, IntVal(digits))
                  ELSE found
          ELSE ArrayAccess(cur, IntVal(digits))

\* lines 69-90: one iteration of the loop
NavPart(cur, part) ==
  IF part = <<>> THEN Continue(cur)
  ELSE IF Contains(part, "[") /\ Contains(part, "]") THEN Bracketed(cur, part)
  ELSE KeyLookup(cur, part)

\* lines 62-63
IsRootPath(pth) == pth = <<>> \/ pth = <<".">>

RECURSIVE NavWalk(_, _)
NavWalk(cur, ps) ==
  IF ps = <<>> THEN [ret |-> cur, err |-> "none"]
  ELSE LET r == NavPart(cur, Head(ps))
       IN IF r.st = "next" THEN NavWalk(r.current, Tail(ps))
          ELSE IF r.st = "return" THEN [ret |-> NoneV, err |-> "none"]
          ELSE [ret |-> NoneV, err |-> r.err]

\* navigate_path as a function: the value returned, or the exception raised
NavigatePath(d, pth) ==
  IF IsRootPath(pth) THEN [ret |-> d, err |-> "none"] ELSE NavWalk(d, Split(pth, "."))

PathAlphabet == {".", "[", "]", "a", "0", "1", "-"}
Paths == SeqsUpTo(PathAlphabet, MaxPathLen)

X == Str(<<"x">>)
Y == Str(<<"y">>)
KeyA == <<"a">>
NavTrees ==
  << Dict(<< <<KeyA, List(<<X, Y>>)>> >>),
     Dict(<< <<KeyA, Dict(<< <<KeyA, X>> >>)>> >>),
     List(<<Dict(<< <<KeyA, X>> >>), Y>>),
     Dict(<< <<KeyA, List(<<List(<<X>>), Y>>)>> >>),
     Dict(<< <<KeyA, X>> >>),
     X >>

NavInit ==
  /\ ParseIdle /\ FmtIdle /\ MainIdle
  /\ \E i \in 1..Len(NavTrees) : data = NavTrees[i]
  /\ path \in Paths
  /\ parts = <<>>
  /\ current = NoneV
  /\ npc = "call"
  /\ nret = NoneV
  /\ nerr = "none"

\* lines 62-66
NavEnter ==
  /\ npc = "call"
  /\ IF IsRootPath(path)
     THEN npc' = "returned" /\ nret' = data /\ UNCHANGED <<parts, current>>
     ELSE npc' = "loop" /\ parts' = Split(path, ".") /\ current' = data /\ UNCHANGED nret
  /\ UNCHANGED <<data, path, nerr>>
  /\ UNCHANGED <<parseVars, fmtVars, mainVars>>

\* lines 68-90
NavStep ==
  /\ npc = "loop"
  /\ parts # <<>>
  /\ LET r == NavPart(current, Head(parts))
     IN /\ current' = r.current
        /\ nerr' = r.err
        /\ npc' = CASE r.st = "next" -> "loop" [] r.st = "return" -> "returned" [] r.st = "raise" -> "raised"
        /\ nret' = NoneV
  /\ parts' = Tail(parts)
  /\ UNCHANGED <<data, path>>
  /\ UNCHANGED <<parseVars, fmtVars, mainVars>>

\* line 92
NavReturn ==
  /\ npc = "loop"
  /\ parts = <<>>
  /\ npc' = "returned"
  /\ nret' = current
  /\ UNCHANGED <<data, path, parts, current, nerr>>
  /\ UNCHANGED <<parseVars, fmtVars, mainVars>>

NavNext == NavEnter \/ NavStep \/ NavReturn

SpecNav == NavInit /\ [][NavNext]_vars

\* ---- the documented resolution (spec 4.3): a bracket index must be a
\* non-negative integer less than the sequence length
Absent == [t |-> "absent", v |-> <<>>]
HasBrackets(part) == Contains(part, "[") /\ Contains(part, "]")
BracketKey(part) == Slice(part, 0, Index(part, "["))
BracketText(part) == Slice(part, Index(part, "[") + 1, Index(part, "]"))
BracketsWellFormed(pth) ==
  \A i \in 1..Len(Split(pth, ".")) :
     HasBrackets(Split(pth, ".")[i]) => IntOk(BracketText(Split(pth, ".")[i]))

MappingAt(cur, key) ==
  IF cur.t = "dict" /\ HasKey(cur.v, key) THEN Lookup(cur.v, key) ELSE Absent

\* the value a bracket index applies to
BracketBase(cur, part) == IF BracketKey(part) = <<>> THEN cur ELSE MappingAt(cur, BracketKey(part))

SequenceAt(cur, i) ==
  IF cur.t = "list" /\ 0 <= i /\ i < Len(cur.v) THEN cur.v[i + 1] ELSE Absent

Addressed(cur, part) ==
  IF HasBrackets(part) THEN SequenceAt(BracketBase(cur, part), IntVal(BracketText(part)))
  ELSE MappingAt(cur, part)

RECURSIVE Resolve(_, _)
Resolve(cur, ps) ==
  IF ps = <<>> \/ cur = Absent THEN cur
  ELSE IF Head(ps) = <<>> THEN Resolve(cur, Tail(ps))
  ELSE Resolve(Addressed(cur, Head(ps)), Tail(ps))

Located(d, pth) == IF IsRootPath(pth) THEN d ELSE Resolve(d, Split(pth, "."))

\* C1: for every tree and every path (its bracket indexes integers), navigate_path
\* returns the value at the addressed location, returns None when a key is missing,
\* a value is not a mapping or an index is out of range, and never raises.
ResolvesOrAbsentNeverRaises ==
  (npc \in {"returned", "raised"} /\ BracketsWellFormed(path))
    => /\ npc = "returned"
       /\ nerr = "none"
       /\ nret = IF Located(data, path) = Absent THEN NoneV ELSE Located(data, path)

\* C2: a bracket index i applied to a sequence of length n yields an element only
\* when 0 <= i < n; for every other integer i the walk ends with None.
IndexOutsideRangeIsAbsent ==
  [][(npc = "loop" /\ parts # <<>>)
       => LET part == Head(parts)
          IN (HasBrackets(part) /\ IntOk(BracketText(part))
                /\ BracketBase(current, part).t = "list"
                /\ ~(0 <= IntVal(BracketText(part))
                       /\ IntVal(BracketText(part)) < Len(BracketBase(current, part).v)))
               => (npc' = "returned" /\ nret' = NoneV /\ nerr' = "none")]_vars

\* ----------------------------------------------------------- format_output
Newline == <<"\n">>
Dashes == <<"-", "-", "-">>
Quote(q, s) == <<q>> \o s \o <<q>>

RECURSIVE PyRepr(_)
RECURSIVE ReprJoin(_)
\* ", ".join of already rendered pieces
ReprJoin(pieces) == Join(pieces, <<",", " ">>)

\* repr(v), for the Python values of the model
PyRepr(v) ==
  CASE v.t = "str" -> Quote("'", v.v)
    [] v.t = "none" -> <<"N", "o", "n", "e">>
    [] v.t = "date" -> <<"d", "a", "t", "e", "(">> \o v.v \o <<")">>
    [] v.t = "list" -> <<"[">> \o ReprJoin([i \in 1..Len(v.v) |-> PyRepr(v.v[i])]) \o <<"]">>
    [] v.t = "dict" ->
         <<"{">> \o ReprJoin([i \in 1..Len(v.v) |->
                      Quote("'", v.v[i][1]) \o <<":", " ">> \o PyRepr(v.v[i][2])]) \o <<"}">>

\* str(v), what an f-string interpolates
PyStr(v) == IF v.t \in {"str", "date"} THEN v.v ELSE PyRepr(v)

RECURSIVE JsonSerializable(_)
JsonSerializable(v) ==
  CASE v.t \in {"str", "none"} -> TRUE
    [] v.t = "date" -> FALSE
    [] v.t = "list" -> \A i \in 1..Len(v.v) : JsonSerializable(v.v[i])
    [] v.t = "dict" -> \A i \in 1..Len(v.v) : JsonSerializable(v.v[i][2])

\* json.dumps(v, indent=2) of a serializable value, at nesting depth level
RECURSIVE JsonDumps(_, _)
JsonDumps(v, level) ==
  CASE v.t = "str" -> Quote("\"", v.v)
    [] v.t = "none" -> <<"n", "u", "l", "l">>
    [] v.t = "list" ->
         IF v.v = <<>> THEN <<"[", "]">>
         ELSE <<"[">> \o Newline
                \o Join([i \in 1..Len(v.v) |-> Spaces(2 * (level + 1)) \o JsonDumps(v.v[i], level + 1)],
                        <<",">> \o Newline)
                \o Newline \o Spaces(2 * level) \o <<"]">>
    [] v.t = "dict" ->
         IF v.v = <<>> THEN <<"{", "}">>
         ELSE <<"{">> \o Newline
                \o Join([i \in 1..Len(v.v) |->
                           Spaces(2 * (level + 1)) \o Quote("\"", v.v[i][1]) \o <<":", " ">>
                             \o JsonDumps(v.v[i][2], level + 1)],
                        <<",">> \o Newline)
                \o Newline \o Spaces(2 * level) \o <<"}">>

ItemLinesNoSeparator(item) ==
  IF item.t = "dict"
  THEN [i \in 1..Len(item.v) |-> item.v[i][1] \o <<":", " ">> \o PyStr(item.v[i][2])]
  ELSE <<<<"-", " ">> \o PyStr(item)>>

\* lines 101-106: what one item of a list adds to output
ItemLines(item) ==
  IF item.t = "dict"
  THEN <<Dashes>> \o [i \in 1..Len(item.v) |-> item.v[i][1] \o <<":", " ">> \o PyStr(item.v[i][2])]
  ELSE <<<<"-", " ">> \o PyStr(item)>>

RECURSIVE AllItemLines(_)
AllItemLines(elems) ==
  IF elems = <<>> THEN <<>> ELSE ItemLines(Head(elems)) \o AllItemLines(Tail(elems))

\* format_output as a function: the text returned, or the exception raised
FormatOutput(v) ==
  CASE v.t = "none" -> [ret |-> <<>>, err |-> "none"]
    [] v.t = "list" -> [ret |-> Join(AllItemLines(v.v), Newline), err |-> "none"]
    [] v.t = "dict" ->
         IF JsonSerializable(v) THEN [ret |-> JsonDumps(v, 0), err |-> "none"]
         ELSE [ret |-> <<>>, err |-> "TypeError"]
    [] OTHER -> [ret |-> PyStr(v), err |-> "none"]

KeyB == <<"b">>
Date == [t |-> "date", v |-> <<"2", "0", "2", "0">>]
FmtElements ==
  << X, Y, NoneV, List(<<X>>), Dict(<<>>), Dict(<< <<KeyA, X>> >>),
     Dict(<< <<KeyB, Y>>, <<KeyA, List(<<X, Y>>)>> >>) >>

RECURSIVE ListsUpTo(_)
ListsUpTo(n) ==
  IF n = 0 THEN {<<>>}
  ELSE LET shorter == ListsUpTo(n - 1)
       IN shorter \cup {Append(l, FmtElements[i]) : l \in shorter, i \in 1..Len(FmtElements)}

FmtInit ==
  /\ ParseIdle /\ NavIdle /\ MainIdle
  /\ \/ \E l \in ListsUpTo(MaxListLen) : value = List(l)
     \/ \E i \in 1..Len(FmtElements) : value = FmtElements[i]
     \/ value = Dict(<< <<KeyA, Date>> >>)
     \/ value = Date
  /\ output = <<>>
  /\ remaining = <<>>
  /\ fpc = "call"
  /\ fret = <<>>
  /\ ferr = "none"

\* lines 96-99 and 108-111
FmtEnter ==
  /\ fpc = "call"
  /\ IF value.t = "list"
     THEN fpc' = "loop" /\ remaining' = value.v /\ UNCHANGED <<fret, ferr>>
     ELSE /\ fret' = FormatOutput(value).ret
          /\ ferr' = FormatOutput(value).err
          /\ fpc' = IF FormatOutput(value).err = "none" THEN "returned" ELSE "raised"
          /\ UNCHANGED remaining
  /\ UNCHANGED <<value, output>>
  /\ UNCHANGED <<parseVars, navVars, mainVars>>

\* lines 100-106
FmtItem ==
  /\ fpc = "loop"
  /\ remaining # <<>>
  /\ output' = output \o ItemLines(Head(remaining))
  /\ remaining' = Tail(remaining)
  /\ UNCHANGED <<value, fpc, fret, ferr>>
  /\ UNCHANGED <<parseVars, navVars, mainVars>>

\* line 107
FmtJoin ==
  /\ fpc = "loop"
  /\ remaining = <<>>
  /\ fret' = Join(output, Newline)
  /\ fpc' = "returned"
  /\ UNCHANGED <<value, output, remaining, ferr>>
  /\ UNCHANGED <<parseVars, navVars, mainVars>>

FmtNext == FmtEnter \/ FmtItem \/ FmtJoin

SpecFmt == FmtInit /\ [][FmtNext]_vars

\* ---- the documented rendering of a sequence (spec 4.4), line by line
BlockLen(e) == IF e.t = "dict" THEN 1 + Len(e.v) ELSE 1

RECURSIVE BlockStart(_, _)
\* the line at which element j's block starts
BlockStart(elems, j) == IF j = 1 THEN 1 ELSE BlockStart(elems, j - 1) + BlockLen(elems[j - 1])

SequenceRendered(elems, txt) ==
  IF elems = <<>> THEN txt = <<>>
  ELSE LET ls == Split(txt, "\n")
       IN /\ Len(ls) = BlockStart(elems, Len(elems)) + BlockLen(elems[Len(elems)]) - 1
          /\ \A j \in 1..Len(elems) :
               LET e == elems[j]
                   at == BlockStart(elems, j)
               IN IF e.t = "dict"
                  THEN /\ ls[at] = Dashes
                       /\ \A m \in 1..Len(e.v) :
                            ls[at + m] = e.v[m][1] \o <<":", " ">> \o PyStr(e.v[m][2])
                  ELSE ls[at] = <<"-", " ">> \o PyStr(e)

\* C5: a sequence is rendered as the newline-joined lines, in element order, of a
\* '---' line and one 'key: value' line per entry for a mapping element and one
\* '- value' line for any other element; a mapping that is itself the result is
\* rendered as an indented block, never in that form.
SequenceAndMappingForms ==
  fpc = "returned" =>
    /\ value.t = "list" => SequenceRendered(value.v, fret)
    /\ value.t = "dict" =>
         /\ Head(fret) = "{"
         /\ Split(fret, "\n")[1] # Dashes
         /\ value.v # <<>> =>
              /\ Len(Split(fret, "\n")) >= 3
              /\ StartsWith(Split(fret, "\n")[2], <<" ", " ", "\"">> \o value.v[1][1])

SequenceFormReached ==
  /\ fpc = "returned"
  /\ value.t = "list"
  /\ Len(value.v) = 2
  /\ value.v[1].t = "dict" /\ Len(value.v[1].v) = 2
  /\ value.v[2].t = "str"
  /\ Len(Split(fret, "\n")) = 4

\* -------------------------------------------------------------------- main
RECURSIVE ParseLines(_, _)
ParseLines(st, ls) ==
  IF ls = <<>> \/ st.err # "none" THEN st ELSE ParseLines(ParseLine(st, Head(ls)), Tail(ls))

\* parse_simple_yaml as a function: lines 18-58
ParseSimpleYaml(txt) == ParseLines(ParserStart, Split(txt, "\n"))

Prog == <<"p">>
\* the file that exists, and one that does not
GoodFile == <<"f">>
NoFile == <<"g">>
KeyK == <<"k">>

FileTexts ==
  << Join(<< <<"a", ":", " ", "x">>, <<"b", ":">>, <<" ", "k", ":">>,
             <<" ", " ", "-", " ", "x">>, <<" ", " ", "-", " ", "y">> >>, Newline),
     Join(<< <<"a", ":", " ", "x">>, <<" ", "k", ":">> >>, Newline),
     <<>> >>

Queries ==
  << <<"a">>, <<"c">>, <<"b">>, <<"b", ".", "k">>, <<>>,
     <<"b", ".", "k", "[", "1", "]">>, <<"b", ".", "k", "[", "2", "]">>,
     <<"b", ".", "k", "[", "-", "1", "]">>, <<"b", ".", "k", "[", "-", "3", "]">>,
     <<"b", ".", "k", "[", "a", "]">> >>

\* what yaml.safe_load may hand back, whatever the text
YamlTrees ==
  << NoneV,
     Dict(<< <<KeyA, X>>, <<KeyB, Dict(<< <<KeyK, List(<<X, Y>>)>> >>)>> >>),
     Dict(<< <<KeyB, Dict(<< <<KeyK, Date>> >>)>> >>) >>

Usage == <<"Usage: yaml_parser.py <yaml_file> <query_path>">>
ErrorLine(e) == <<"Error: ", e>>

MainInit ==
  /\ ParseIdle /\ NavIdle /\ FmtIdle
  /\ \/ argv = <<Prog>>
     \/ argv = <<Prog, GoodFile>>
     \/ \E i \in 1..Len(Queries), f \in {GoodFile, NoFile} : argv = <<Prog, f, Queries[i]>>
     \/ \E i \in 1..Len(Queries) : argv = <<Prog, GoodFile, Queries[i], Queries[i]>>
  /\ HAS_YAML \in BOOLEAN
  /\ \E i \in 1..Len(FileTexts) : disk = FileTexts[i]
  /\ f_open = FALSE
  /\ opens = 0
  /\ content = <<>>
  /\ mdata = NoneV
  /\ mresult = NoneV
  /\ text = <<>>
  /\ stdout = <<>>
  /\ stderr = <<>>
  /\ exit_code = -1
  /\ pc = "start"
  /\ exc = "none"
  /\ failed_at = "none"

ArgsOkAtLeast(args) == Len(args) >= 3

\* line 114
ArgsOk(args) == Len(args) = 3

Fails(stage, e) == exc' = e /\ failed_at' = stage

\* lines 114-119
CheckArgs ==
  /\ pc = "start"
  /\ IF ArgsOk(argv)
     THEN pc' = "open" /\ UNCHANGED <<stderr, exit_code>>
     ELSE /\ stderr' = Append(stderr, Usage)
          /\ exit_code' = 1
          /\ pc' = "exited"
  /\ UNCHANGED <<argv, HAS_YAML, disk, f_open, opens, content, mdata, mresult, text, stdout,
                 exc, failed_at>>
  /\ UNCHANGED <<parseVars, navVars, fmtVars>>

\* line 122: open(yaml_file, 'r')
OpenFile ==
  /\ pc = "open"
  /\ opens' = opens + 1
  /\ IF argv[2] = GoodFile
     THEN f_open' = TRUE /\ pc' = "read" /\ UNCHANGED <<exc, failed_at>>
     ELSE Fails("open", "FileNotFoundError") /\ pc' = "except" /\ UNCHANGED f_open
  /\ UNCHANGED <<argv, HAS_YAML, disk, content, mdata, mresult, text, stdout, stderr, exit_code>>
  /\ UNCHANGED <<parseVars, navVars, fmtVars>>

\* line 123: f.read(), which the bytes of the file may make fail
ReadFile ==
  /\ pc = "read"
  /\ \/ content' = disk /\ UNCHANGED <<exc, failed_at>>
     \/ Fails("read", "UnicodeDecodeError") /\ UNCHANGED content
  /\ pc' = "with_exit"
  /\ UNCHANGED <<argv, HAS_YAML, disk, f_open, opens, mdata, mresult, text, stdout, stderr,
                 exit_code>>
  /\ UNCHANGED <<parseVars, navVars, fmtVars>>

FileStaysOpenOnError(e) == e # "none"

\* line 122: whether the handle is still open once the with block is left
FileOpenAfterWith(e) == FALSE

\* lines 122-123: leaving the with block, normally or by the exception e
WithExit ==
  /\ pc = "with_exit"
  /\ f_open' = FileOpenAfterWith(exc)
  /\ pc' = IF exc = "none" THEN "load" ELSE "except"
  /\ UNCHANGED <<argv, HAS_YAML, disk, opens, content, mdata, mresult, text, stdout, stderr,
                 exit_code, exc, failed_at>>
  /\ UNCHANGED <<parseVars, navVars, fmtVars>>

\* lines 125-128
Load ==
  /\ pc = "load"
  /\ IF HAS_YAML
     THEN \/ \E i \in 1..Len(YamlTrees) :
               mdata' = YamlTrees[i] /\ pc' = "navigate" /\ UNCHANGED <<exc, failed_at>>
          \/ Fails("load", "YAMLError") /\ pc' = "except" /\ UNCHANGED mdata
     ELSE LET st == ParseSimpleYaml(content)
          IN IF st.err = "none"
             THEN mdata' = Root(st.result, st.heap) /\ pc' = "navigate" /\ UNCHANGED <<exc, failed_at>>
             ELSE Fails("load", st.err) /\ pc' = "except" /\ UNCHANGED mdata
  /\ UNCHANGED <<argv, HAS_YAML, disk, f_open, opens, content, mresult, text, stdout, stderr,
                 exit_code>>
  /\ UNCHANGED <<parseVars, navVars, fmtVars>>

\* line 130
Navigate ==
  /\ pc = "navigate"
  /\ LET r == NavigatePath(mdata, argv[3])
     IN IF r.err = "none"
        THEN mresult' = r.ret /\ pc' = "format" /\ UNCHANGED <<exc, failed_at>>
        ELSE Fails("navigate", r.err) /\ pc' = "except" /\ UNCHANGED mresult
  /\ UNCHANGED <<argv, HAS_YAML, disk, f_open, opens, content, mdata, text, stdout, stderr,
                 exit_code>>
  /\ UNCHANGED <<parseVars, navVars, fmtVars>>

\* line 131: the argument of print
Format ==
  /\ pc = "format"
  /\ LET r == FormatOutput(mresult)
     IN IF r.err = "none"
        THEN text' = r.ret /\ pc' = "print" /\ UNCHANGED <<exc, failed_at>>
        ELSE Fails("format", r.err) /\ pc' = "except" /\ UNCHANGED text
  /\ UNCHANGED <<argv, HAS_YAML, disk, f_open, opens, content, mdata, mresult, stdout, stderr,
                 exit_code>>
  /\ UNCHANGED <<parseVars, navVars, fmtVars>>

\* line 131: print, then the end of main
PrintResult ==
  /\ pc = "print"
  /\ stdout' = Append(stdout, text \o Newline)
  /\ exit_code' = 0
  /\ pc' = "exited"
  /\ UNCHANGED <<argv, HAS_YAML, disk, f_open, opens, content, mdata, mresult, text, stderr,
                 exc, failed_at>>
  /\ UNCHANGED <<parseVars, navVars, fmtVars>>

\* lines 133-135
HandleError ==
  /\ pc = "except"
  /\ stderr' = Append(stderr, ErrorLine(exc))
  /\ exit_code' = 1
  /\ pc' = "exited"
  /\ UNCHANGED <<argv, HAS_YAML, disk, f_open, opens, content, mdata, mresult, text, stdout,
                 exc, failed_at>>
  /\ UNCHANGED <<parseVars, navVars, fmtVars>>

Next ==
  \/ CheckArgs
  \/ OpenFile
  \/ ReadFile
  \/ WithExit
  \/ Load
  \/ Navigate
  \/ Format
  \/ PrintResult
  \/ HandleError

Spec == MainInit /\ [][Next]_vars

\* C3: once a document has loaded, a query that addresses no location in it (missing
\* key, non-mapping intermediate value, index outside the sequence's range) makes
\* main print the empty rendering and exit with code 0, never through the handler.
AbsentPrintsEmptyExitsZero ==
  (/\ pc = "exited"
   /\ Len(argv) = 3
   /\ failed_at \notin {"open", "read", "load"}
   /\ BracketsWellFormed(argv[3])
   /\ Located(mdata, argv[3]) = Absent)
    => (stdout = <<Newline>> /\ stderr = <<>> /\ exit_code = 0)

\* C6: with any number of arguments other than two, the run writes the usage message
\* to standard error and exits with code 1, never opens the file and writes nothing
\* to standard output.
UsageErrorBeforeFileAccess ==
  (pc # "idle" /\ Len(argv) # 3)
    => /\ opens = 0
       /\ ~f_open
       /\ stdout = <<>>
       /\ pc \in {"start", "exited"}
       /\ pc = "exited" => (stderr = <<Usage>> /\ exit_code = 1)

UsageErrorReached ==
  /\ pc = "exited"
  /\ Len(argv) = 4
  /\ stderr = <<Usage>>
  /\ exit_code = 1

\* C7: a run in which opening, reading, parsing, resolving or formatting fails writes
\* exactly one 'Error: <message>' line to standard error, nothing to standard output,
\* and exits with code 1; and in every run the file handle is closed at exit.
FailsOnceAndClosesFile ==
  /\ pc = "exited" => ~f_open
  /\ failed_at # "none" => stdout = <<>>
  /\ (pc = "exited" /\ failed_at # "none") => (stderr = <<ErrorLine(exc)>> /\ exit_code = 1)

ReadFailureReached ==
  /\ pc = "exited"
  /\ failed_at = "read"
  /\ opens = 1
  /\ ~f_open
  /\ stderr = <<ErrorLine("UnicodeDecodeError")>>
====
